---- MODULE Spec2Model ----
(***************************************************************************)
(* AllergyGuard AI.                                                        *)
(*                                                                         *)
(* Server: the /nutrition route of server/server.js (its in-memory cache,  *)
(* the two awaited upstream calls and the responses it sends).             *)
(* Client: the allergen profile of AllergyGuardAIApp (loadProfile,         *)
(* saveProfile, the per-category toggle, Select All, Deselect All).        *)
(*                                                                         *)
(* Strings are sequences of one-character strings; JavaScript values that  *)
(* reach the code from outside (request fields, upstream JSON, the         *)
(* persisted text) are tagged records, so that a missing field, a          *)
(* non-string and a blank string are three different inputs.               *)
(***************************************************************************)
EXTENDS Integers, Sequences, FiniteSets, TLC

VARIABLES usdaKey, now, cache, req, last, seen, answered, nReq, nTicks,
          store, profile, phase, nOps,
          q, loading, results, picked, nutrition, nLoading, nError,
          searches, lookups, submitted, shown, arrived, clicked, issued, current,
          input, output

serverVars == <<usdaKey, now, cache, req, last, seen, answered, nReq, nTicks>>
profileVars == <<store, profile, phase, nOps>>
uiVars == <<q, loading, results, picked, nutrition, nLoading, nError,
            searches, lookups, submitted, shown, arrived, clicked, issued, current>>
renderVars == <<input, output>>
clientVars == <<profileVars, uiVars, renderVars>>
vars == <<serverVars, clientVars>>

(***************************************************************************)
(* Bounds                                                                  *)
(***************************************************************************)
MaxRequests == 3
MaxTicks == 2
MaxHits == 2
MaxOps == 3
MaxSearches == 2
MaxLookups == 2

Slots == {1, 2}

(***************************************************************************)
(* JavaScript values and strings                                           *)
(***************************************************************************)
Undef == [t |-> "undef", s |-> <<>>, n |-> 0]
None == [t |-> "none", s |-> <<>>, n |-> 0]
Str(s) == [t |-> "str", s |-> s, n |-> 0]
Num(n) == [t |-> "num", s |-> <<>>, n |-> n]

\* x || '' : undefined and the empty string are falsy; the numbers used as
\* inputs are non-zero, hence truthy.
OrEmpty(x) == IF x.t = "undef" \/ (x.t = "str" /\ x.s = <<>>) THEN Str(<<>>) ELSE x

IsSpace(c) == c = " "

RECURSIVE TrimStart(_)
TrimStart(s) == IF s # <<>> /\ IsSpace(Head(s)) THEN TrimStart(Tail(s)) ELSE s

RECURSIVE TrimEnd(_)
TrimEnd(s) ==
  IF s # <<>> /\ IsSpace(s[Len(s)]) THEN TrimEnd(SubSeq(s, 1, Len(s) - 1)) ELSE s

\* The call to trim() left out.
TrimNone(s) == s

Trim(s) == TrimEnd(TrimStart(s))

UpperCase ==
  <<"A", "B", "C", "D", "E", "F", "G", "H", "I", "J", "K", "L", "M",
    "N", "O", "P", "Q", "R", "S", "T", "U", "V", "W", "X", "Y", "Z">>

LowerCase ==
  <<"a", "b", "c", "d", "e", "f", "g", "h", "i", "j", "k", "l", "m",
    "n", "o", "p", "q", "r", "s", "t", "u", "v", "w", "x", "y", "z">>

LowerChar(c) ==
  IF \E i \in 1..26 : UpperCase[i] = c
  THEN LowerCase[CHOOSE i \in 1..26 : UpperCase[i] = c]
  ELSE c

ToLowerCase(s) == [i \in 1..Len(s) |-> LowerChar(s[i])]

Includes(s, sub) ==
  \E i \in 0..(Len(s) - Len(sub)) : SubSeq(s, i + 1, i + Len(sub)) = sub

RECURSIVE Join(_)
Join(parts) ==
  IF parts = <<>> THEN <<>>
  ELSE IF Len(parts) = 1 THEN parts[1]
  ELSE parts[1] \o <<" ">> \o Join(Tail(parts))

NonEmpty(s) == s # <<>>

(***************************************************************************)
(* Server: cache                                                           *)
(***************************************************************************)
TTL == 5 * 60 * 1000

\* An entry kept one millisecond too long.
ExpiredLate(v, t) == t - v.t > TTL + 1

Expired(v, t) == t - v.t > TTL

\* A cache that never answers.
CacheGetMiss(c, k, t) == [hit |-> FALSE, data |-> 0, t |-> 0, cache |-> c]

\* get(k) at clock t: the value returned (hit FALSE stands for null) and the
\* cache it leaves behind.
CacheGet(c, k, t) ==
  IF k \notin DOMAIN c THEN [hit |-> FALSE, data |-> 0, t |-> 0, cache |-> c]
  ELSE IF Expired(c[k], t)
       THEN [hit |-> FALSE, data |-> 0, t |-> 0,
             cache |-> [x \in DOMAIN c \ {k} |-> c[x]]]
       ELSE [hit |-> TRUE, data |-> c[k].data, t |-> c[k].t, cache |-> c]

\* The write lost.
CacheSetDrop(c, k, data, t) == c

CacheSet(c, k, data, t) ==
  [x \in DOMAIN c \cup {k} |-> IF x = k THEN [data |-> data, t |-> t] ELSE c[x]]

(***************************************************************************)
(* Server: pure parts of the /nutrition handler                            *)
(***************************************************************************)
\* [brand, name].filter(Boolean).join(' ').trim() || name
Query(brand, name) ==
  LET j == Trim(Join(SelectSeq(<<brand, name>>, NonEmpty)))
  IN IF j # <<>> THEN j ELSE name

CacheKey(query) == <<"U", "S", "D", "A", ":", ":">> \o ToLowerCase(query)

RECURSIVE Find(_, _)
Find(hits, dataType) ==
  IF hits = <<>> THEN <<>>
  ELSE IF Head(hits).dataType = dataType THEN <<Head(hits)>>
  ELSE Find(Tail(hits), dataType)

\* No preference for a Branded candidate.
PickFirst(brand, hits) == hits[1]

\* (brand ? hits.find(h => h.dataType === 'Branded') : null) || hits[0]
Pick(brand, hits) ==
  LET f == IF brand # <<>> THEN Find(hits, "Branded") ELSE <<>>
  IN IF f # <<>> THEN f[1] ELSE hits[1]

\* num(x): Number(x) when finite, else 0
num(x) == IF x.t = "num" THEN x.n ELSE 0

MatchType(brand, d) ==
  IF brand # <<>>
  THEN IF Includes(ToLowerCase(OrEmpty(d.brandOwner).s), ToLowerCase(brand))
       THEN "exact" ELSE "likely"
  ELSE "generic"

\* The record sent and cached.  carbs_g stands for the three rounded nutrient
\* fields, which the handler computes alike.
Out(brand, d) ==
  [source |-> "usda", matchType |-> MatchType(brand, d), carbs_g |-> num(d.carbs)]

NoData == [source |-> "none", matchType |-> "none", carbs_g |-> 0]

(***************************************************************************)
(* Server: inputs                                                          *)
(***************************************************************************)
\* Request bodies {name, brand}: missing, blank, non-string and usable
\* fields.  The usable bodies give the same query in lower case, hence the
\* same cache key: without a brand, with a blank brand, with a brand.
Bodies ==
  {[name |-> Undef, brand |-> Undef],
   [name |-> Str(<<" ">>), brand |-> Str(<<"a">>)],
   [name |-> Undef, brand |-> Num(7)],
   [name |-> Num(7), brand |-> Undef],
   [name |-> Str(<<"a", " ", "b">>), brand |-> Undef],
   [name |-> Str(<<" ", "a", " ", "b">>), brand |-> Str(<<" ">>)],
   [name |-> Str(<<"b">>), brand |-> Str(<<"A", " ">>)]}

\* No request body was read by the step.
NoBody == [name |-> None, brand |-> None]

DataTypes == {"Branded", "Foundation"}
HitLists ==
  UNION {{[i \in 1..n |-> [fdcId |-> i, dataType |-> f[i]]] : f \in [1..n -> DataTypes]}
         : n \in 0..MaxHits}

NoPick == [fdcId |-> 0, dataType |-> "none"]

\* Outcomes of the search fetch: the network fails; or a response arrives
\* with a success flag and a body that is not JSON, is the JSON null, or is
\* a JSON object with or without a foods array.
SearchOutcomes ==
  {[net |-> "fail", ok |-> FALSE, body |-> "none", hasFoods |-> FALSE, foods |-> <<>>],
   [net |-> "ok", ok |-> FALSE, body |-> "object", hasFoods |-> FALSE, foods |-> <<>>],
   [net |-> "ok", ok |-> TRUE, body |-> "unparseable", hasFoods |-> FALSE, foods |-> <<>>],
   [net |-> "ok", ok |-> TRUE, body |-> "null", hasFoods |-> FALSE, foods |-> <<>>],
   [net |-> "ok", ok |-> TRUE, body |-> "object", hasFoods |-> FALSE, foods |-> <<>>]}
  \cup {[net |-> "ok", ok |-> TRUE, body |-> "object", hasFoods |-> TRUE, foods |-> h]
        : h \in HitLists}

ErrorBody == [brandOwner |-> Undef, carbs |-> Undef]
FoodBodies == {[brandOwner |-> b, carbs |-> Num(20)] : b \in {Undef, Str(<<"A">>)}}

\* Outcomes of the detail fetch, in the same form.  A non-success status
\* carries the provider's JSON error object or a body that is not JSON.
DetailOutcomes ==
  {[net |-> "fail", ok |-> FALSE, body |-> "none", d |-> ErrorBody],
   [net |-> "ok", ok |-> FALSE, body |-> "object", d |-> ErrorBody],
   [net |-> "ok", ok |-> FALSE, body |-> "unparseable", d |-> ErrorBody]}
  \cup {[net |-> "ok", ok |-> TRUE, body |-> "object", d |-> f] : f \in FoodBodies}

\* What a response keeps of the search outcome (the list itself is in seen).
Summary(o) == [net |-> o.net, ok |-> o.ok, body |-> o.body, hasFoods |-> o.hasFoods,
               empty |-> (o.foods = <<>>)]
NoSearch == [net |-> "none", ok |-> FALSE, body |-> "none", hasFoods |-> FALSE,
             empty |-> TRUE]
NoDetail == [net |-> "none", ok |-> FALSE, body |-> "none", d |-> ErrorBody]

(***************************************************************************)
(* Server: state                                                           *)
(***************************************************************************)
\* A handler between two awaits: the locals it still uses (name, brand,
\* cacheKey, pick).
IdleReq == [pc |-> "idle",
            name |-> <<>>, brand |-> <<>>, key |-> <<>>, pick |-> NoPick]

\* The candidate list read by the step just taken, and the slot that read it.
NoSeen == [slot |-> 0, hits |-> <<>>]

\* The response sent by the step just taken (NoResponse when it sent none),
\* with the request body when the step is the one that read it, the trimmed
\* name and brand, and what the handler did on the way:
\* the settled upstream calls (sOut, dOut), whether the record came from the
\* cache and whether one was written.
Response(b, r, status, error, data, fromCache, wrote, sOut, dOut) ==
  [body |-> b, name |-> r.name, brand |-> r.brand, key |-> r.key,
   status |-> status, error |-> error, data |-> data,
   fromCache |-> fromCache, wrote |-> wrote,
   sOut |-> sOut, dOut |-> dOut]

NoResponse == Response(NoBody, IdleReq, 0, "none", NoData, FALSE, FALSE, NoSearch, NoDetail)

InitServer ==
  /\ usdaKey \in BOOLEAN
  /\ now = 0
  /\ cache = <<>>
  /\ req = [r \in Slots |-> IdleReq]
  /\ last = NoResponse
  /\ seen = NoSeen
  /\ answered = {}
  /\ nReq = 0
  /\ nTicks = 0

(***************************************************************************)
(* Server: the /nutrition handler, one action per stretch between awaits   *)
(***************************************************************************)
\* res.json / res.status(..).json: the slot is free again and the response
\* is recorded.  A 200 that stored its record is remembered with the time of
\* storing, the brand it was computed for and the status of its detail call
\* (a 200 served from the cache repeats a record, key and time already
\* remembered).
Finish(r, resp, newCache) ==
  /\ req' = [req EXCEPT ![r] = IdleReq]
  /\ last' = resp
  /\ cache' = newCache
  /\ answered' = IF resp.status = 200 /\ resp.wrote
                 THEN answered \cup {[key |-> resp.key, data |-> resp.data, t |-> now,
                                      brand |-> resp.brand, ok |-> resp.dOut.ok]}
                 ELSE answered

\* Lines 53-71: configuration and input checks, cache lookup, search issued.
Receive(r, b) ==
  /\ req[r].pc = "idle"
  /\ \A x \in Slots : x < r => req[x].pc # "idle"
  /\ nReq < MaxRequests
  /\ nReq' = nReq + 1
  /\ seen' = NoSeen
  /\ UNCHANGED <<usdaKey, now, nTicks, clientVars>>
  /\ LET base == IdleReq
         n == OrEmpty(b.name)
         br == OrEmpty(b.brand)
     IN IF ~usdaKey
        THEN Finish(r, Response(b, base, 500, "USDA_API_KEY missing in .env", NoData,
                                FALSE, FALSE, NoSearch, NoDetail), cache)
        ELSE IF n.t # "str" \/ br.t # "str"
        THEN Finish(r, Response(b, base, 500, "server_error", NoData,
                                FALSE, FALSE, NoSearch, NoDetail), cache)
        ELSE LET name == Trim(n.s)
                 brand == Trim(br.s)
                 key == CacheKey(Query(brand, name))
                 g == CacheGet(cache, key, now)
                 parsed == [base EXCEPT !.name = name, !.brand = brand]
             IN IF name = <<>>
                THEN Finish(r, Response(b, parsed, 400, "name required", NoData,
                                        FALSE, FALSE, NoSearch, NoDetail), cache)
                ELSE IF g.hit
                THEN Finish(r, Response(b, [parsed EXCEPT !.key = key], 200, "none", g.data,
                                        TRUE, FALSE, NoSearch, NoDetail), g.cache)
                ELSE /\ req' = [req EXCEPT ![r] = [parsed EXCEPT !.key = key, !.pc = "search"]]
                     /\ cache' = g.cache
                     /\ last' = NoResponse
                     /\ UNCHANGED answered

\* Array.isArray(sj.foods) ? sj.foods : []
Hits(o) == IF o.hasFoods THEN o.foods ELSE <<>>

\* The empty-list check left out: hits[0] is undefined and reading its fdcId
\* throws.
SearchStatusNo404(o) ==
  IF o.net = "fail" \/ ~o.ok \/ o.body \in {"unparseable", "null"} THEN 500
  ELSE IF Hits(o) = <<>> THEN 500
  ELSE 0

\* How the handler leaves the search call: 500 when the fetch rejects, the
\* status is not a success, the body is not JSON or is null (sj.foods
\* throws); 404 when there is no candidate; 0 when it goes on.
SearchStatus(o) ==
  IF o.net = "fail" \/ ~o.ok \/ o.body \in {"unparseable", "null"} THEN 500
  ELSE IF Hits(o) = <<>> THEN 404
  ELSE 0

\* Lines 67-81: the search fetch settles; candidates are read, one is picked
\* and its detail is requested.
SearchReturn(r, o) ==
  /\ req[r].pc = "search"
  /\ UNCHANGED <<usdaKey, now, nReq, nTicks, clientVars>>
  /\ LET cur == req[r]
         hits == Hits(o)
         st == SearchStatus(o)
     IN IF st # 0
        THEN /\ Finish(r, Response(NoBody, cur, st,
                                   IF st = 404 THEN "not_found" ELSE "server_error",
                                   NoData, FALSE, FALSE, Summary(o), NoDetail), cache)
             /\ seen' = NoSeen
        ELSE /\ req' = [req EXCEPT ![r] = [cur EXCEPT !.pc = "detail",
                                                      !.pick = Pick(cur.brand, hits)]]
             /\ seen' = [slot |-> r, hits |-> hits]
             /\ last' = NoResponse
             /\ UNCHANGED <<cache, answered>>

\* The search outcome behind a handler that reached the detail call.
SearchFound ==
  [net |-> "ok", ok |-> TRUE, body |-> "object", hasFoods |-> TRUE, empty |-> FALSE]

\* Lines 80-108: the detail fetch settles; its body is parsed without a look
\* at the status, the record is built, cached and sent.
DetailReturn(r, o) ==
  /\ req[r].pc = "detail"
  /\ seen' = NoSeen
  /\ UNCHANGED <<usdaKey, now, nReq, nTicks, clientVars>>
  /\ LET cur == req[r]
         out == Out(cur.brand, o.d)
     IN IF o.net = "fail" \/ o.body \in {"unparseable", "null"}
        THEN Finish(r, Response(NoBody, cur, 500, "server_error", NoData,
                                FALSE, FALSE, SearchFound, o), cache)
        ELSE Finish(r, Response(NoBody, cur, 200, "none", out, FALSE, TRUE, SearchFound, o),
                    CacheSet(cache, cur.key, out, now))

\* Date.now() moves on between handler steps.  What is remembered of records
\* stored more than 5 minutes ago is dropped: no later request is within 5
\* minutes of them.
TickSteps == {1, TTL}

Tick(d) ==
  /\ nTicks < MaxTicks
  /\ nTicks' = nTicks + 1
  /\ now' = now + d
  /\ last' = NoResponse
  /\ seen' = NoSeen
  /\ answered' = {a \in answered : now' - a.t <= TTL}
  /\ UNCHANGED <<usdaKey, cache, req, nReq, clientVars>>

(***************************************************************************)
(* Client: allergen catalog and profile store                              *)
(***************************************************************************)
\* The keys of ALLERGENS, in order.
AllergenKeys ==
  <<"peanut", "tree_nuts", "milk", "egg", "gluten", "soy", "sesame", "fish",
    "shellfish", "mustard", "celery", "sulfites">>

CategoryKeys == {AllergenKeys[i] : i \in 1..Len(AllergenKeys)}

\* A JavaScript value as JSON.parse can return it: its type and its own
\* enumerable properties (the entries of an object, the elements of an array,
\* the characters of a string; none for null and numbers).  Property values
\* are written as JSON scalars.
JsVal(t, m) == [t |-> t, m |-> m]
EmptyObj == JsVal("obj", <<>>)
JNull == JsVal("null", <<>>)

Keys(v) == DOMAIN v.m

\* The item under "allergyguardai_profile": absent (getItem gives null), the
\* empty string, a text that is not JSON, or the JSON text of a value.
Absent == [kind |-> "absent", v |-> JNull]
EmptyText == [kind |-> "empty", v |-> JNull]
Garbage == [kind |-> "unparseable", v |-> JNull]

\* JSON.stringify of a value built from JSON scalars, and JSON.parse of such
\* a text: the text denotes the value.
Stringify(v) == [kind |-> "json", v |-> v]

\* try { JSON.parse(getItem(..) || "{}") } catch { {} }
loadProfile(st) ==
  IF st.kind \in {"absent", "empty"} THEN EmptyObj
  ELSE IF st.kind = "unparseable" THEN EmptyObj
  ELSE st.v

\* Only the selected categories written.
saveProfileSelected(p) ==
  Stringify(JsVal(p.t, [k \in {x \in DOMAIN p.m : p.m[x] = "true"} |-> p.m[k]]))

\* setItem(.., JSON.stringify(p)): the new content of the item.
saveProfile(p) == Stringify(p)

\* !!x for a property value, ABSENT standing for undefined.
Truthy(x) == x \notin {"false", "null", "0", "ABSENT"}

Prop(v, k) == IF k \in DOMAIN v.m THEN v.m[k] ELSE "ABSENT"

JsBool(b) == IF b THEN "true" ELSE "false"

\* ({ ...prev, [k]: checked })
SetKey(prev, k, checked) ==
  JsVal("obj", [x \in DOMAIN prev.m \cup {k} |-> IF x = k THEN JsBool(checked) ELSE prev.m[x]])

\* Every category set to true, whatever the flag.
AllSetTrue(flag) == JsVal("obj", [k \in CategoryKeys |-> "true"])

\* ALLERGENS.forEach(a => { all[a.key] = flag })
AllSet(flag) == JsVal("obj", [k \in CategoryKeys |-> JsBool(flag)])

\* Contents the item can have when the page loads.
StoreInputs ==
  {Absent, EmptyText, Garbage} \cup
  {Stringify(v) : v \in
     {JNull,
      JsVal("num", <<>>),
      JsVal("str", ("0" :> "\"a\"") @@ ("1" :> "\"b\"")),
      JsVal("arr", ("0" :> "true")),
      EmptyObj,
      JsVal("obj", ("peanut" :> "true") @@ ("milk" :> "false")),
      JsVal("obj", ("egg" :> "\"yes\"")),
      JsVal("obj", ("gluten_free" :> "true"))}}

InitClient ==
  /\ store \in StoreInputs
  /\ profile = EmptyObj
  /\ phase = "start"
  /\ nOps = 0

\* First render: useState(() => loadProfile()), the body of the component
\* (profile[a.key] throws on null, and the component never mounts), then the
\* effect saveProfile(profile).
Mount ==
  /\ phase = "start"
  /\ profile' = loadProfile(store)
  /\ IF profile'.t = "null"
     THEN phase' = "crashed" /\ store' = store
     ELSE phase' = "ready" /\ store' = saveProfile(profile')
  /\ UNCHANGED <<nOps, serverVars, uiVars, renderVars>>

\* A profile update: setProfile, the re-render and the effect
\* saveProfile(profile) that follows every change of profile.
Update(p) ==
  /\ phase = "ready"
  /\ nOps < MaxOps
  /\ nOps' = nOps + 1
  /\ profile' = p
  /\ store' = saveProfile(p)
  /\ UNCHANGED <<phase, serverVars, uiVars, renderVars>>

\* The checkbox of category k, shown checked when !!profile[k], is clicked.
Toggle(k) == Update(SetKey(profile, k, ~Truthy(Prop(profile, k))))

selectAllAllergens == Update(AllSet(TRUE))

deselectAllAllergens == Update(AllSet(FALSE))

(***************************************************************************)
(* Client: product search and nutrition lookup                             *)
(***************************************************************************)
\* An array of strings as a JavaScript value.
Arr(a) == [t |-> "arr", s |-> a, n |-> 0]

\* !x
Falsy(x) ==
  x.t \in {"undef", "null"} \/ (x.t = "str" /\ x.s = <<>>) \/ (x.t = "num" /\ x.n = 0)

StartsWith(s, pre) == Len(s) >= Len(pre) /\ SubSeq(s, 1, Len(pre)) = pre

Substring(s, from) == SubSeq(s, from + 1, Len(s))

Min(a, b) == IF a < b THEN a ELSE b

\* s.slice(0, n)
Slice(s, n) == SubSeq(s, 1, Min(n, Len(s)))

\* An entry of j.products as the search endpoint sends it.
Upstream(code, name, brands, text, tags) ==
  [code |-> code, product_name |-> name, brands |-> brands,
   ingredients_text |-> text, allergens_tags |-> tags]

\* undefined as the picked product.
NoProduct ==
  [sid |-> 0, code |-> 0, product_name |-> Undef, brands |-> Undef,
   ingredients_text |-> Undef, allergens_tags |-> <<>>]

\* p.product_name && p.product_name.toLowerCase().includes(q.toLowerCase())
NameMatches(p, query) ==
  /\ ~Falsy(p.product_name)
  /\ Includes(ToLowerCase(p.product_name.s), ToLowerCase(query))

\* The filter callback throws on a truthy name that is not a string.
NameThrows(p) == ~Falsy(p.product_name) /\ p.product_name.t # "str"

\* (p.allergens_tags || []) .filter(..).map(..) throws unless the tags are
\* an array.
TagsThrow(p) == ~Falsy(p.allergens_tags) /\ p.allergens_tags.t # "arr"

\* .filter(tag => tag.startsWith("en:")).map(tag => tag.substring(3))
enTags(tags) ==
  LET en == SelectSeq(tags, LAMBDA tag : StartsWith(tag, <<"e", "n", ":">>))
  IN [i \in 1..Len(en) |-> Substring(en[i], 3)]

\* The Product built from an upstream entry; sid is the search whose map()
\* call created the object (two objects are the same reference only when
\* the same search created them from the same entry).
ToProduct(p, sid) ==
  [sid |-> sid, code |-> p.code, product_name |-> p.product_name,
   brands |-> p.brands, ingredients_text |-> p.ingredients_text,
   allergens_tags |-> enTags(IF Falsy(p.allergens_tags) THEN <<>> ELSE p.allergens_tags.s)]

\* The Map keyed by product_name, first occurrence kept, in insertion order.
RECURSIVE Unique(_, _)
Unique(prods, names) ==
  IF prods = <<>> THEN <<>>
  ELSE LET name == OrEmpty(Head(prods).product_name).s
       IN IF name # <<>> /\ name \notin names
          THEN <<Head(prods)>> \o Unique(Tail(prods), names \cup {name})
          ELSE Unique(Tail(prods), names)

\* No deduplication.
uniqueProdsAll(prods) == prods

uniqueProds(prods) == Unique(prods, {})

ResultCap == 5

\* What the search endpoint can answer: the request fails, the body is not
\* JSON, or the body is the JSON value j (null, or an object whose products
\* field is absent, an array, or something else).
Answer(net, body, products) == [net |-> net, body |-> body, products |-> products]

\* The entries of j.products || [] when that is an array.
Entries(o) == IF Falsy(o.products) THEN <<>> ELSE o.products.s

\* The try block of search() ends in the catch block: fetch rejects,
\* r.json() rejects, j is null, j.products is truthy and not an array, or a
\* callback throws.
Caught(o, query) ==
  \/ o.net = "fail"
  \/ o.body \in {"unparseable", "null"}
  \/ ~Falsy(o.products) /\ o.products.t # "arr"
  \/ \E i \in 1..Len(Entries(o)) : NameThrows(Entries(o)[i])
  \/ \E i \in 1..Len(Entries(o)) :
       NameMatches(Entries(o)[i], query) /\ TagsThrow(Entries(o)[i])

\* The catch block leaves the list as it was.
OnErrorKeep(prev) == prev

\* catch: setResults([])
OnError(prev) == <<>>

\* The list search() passes to setResults for the query it was called with
\* and the answer o; prev is the list shown when the answer arrives.
searchResults(query, o, sid, prev) ==
  IF Caught(o, query) THEN OnError(prev)
  ELSE LET filtered == SelectSeq(Entries(o), LAMBDA p : NameMatches(p, query))
           prods == [i \in 1..Len(filtered) |-> ToProduct(filtered[i], sid)]
       IN Slice(uniqueProds(prods), ResultCap)


\* Answers of the search endpoint tried.
Rich ==
  Arr(<<Upstream(1, Str(<<"a">>), Str(<<"x">>), Undef, Undef),
        Upstream(2, Str(<<"A", "b">>), Undef, Str(<<"e", "g", "g">>),
                 Arr(<<<<"e", "n", ":", "e", "g", "g">>, <<"f", "r", ":", "o", "e", "u", "f">>>>)),
        Upstream(3, Str(<<"a">>), Str(<<"y">>), Undef, Arr(<<>>)),
        Upstream(4, Str(<<"b", "a">>), Str(<<>>), Undef, Undef),
        Upstream(5, Str(<<"A", "B">>), Undef, Undef, Undef),
        Upstream(6, Str(<<"a", "B">>), Undef, Undef, Undef),
        Upstream(7, Str(<<"a", "b">>), Undef, Undef, Undef)>>)

Mixed ==
  Arr(<<Upstream(1, Undef, Str(<<"x">>), Undef, Undef),
        Upstream(2, Str(<<>>), Undef, Undef, Undef),
        Upstream(3, Str(<<"b">>), Undef, Undef, Str(<<"e", "n", ":", "x">>)),
        Upstream(4, Str(<<"a", "b">>), Str(<<"x">>), Undef, Undef),
        Upstream(5, Str(<<"A", "b">>), Undef, Undef, Undef),
        Upstream(6, Str(<<"a", "b">>), Str(<<"y">>), Undef, Undef)>>)

BadName ==
  Arr(<<Upstream(1, Str(<<"a", "b">>), Undef, Undef, Undef),
        Upstream(2, Num(7), Undef, Undef, Undef)>>)

BadTags ==
  Arr(<<Upstream(1, Str(<<"a">>), Undef, Undef, Str(<<"e", "n", ":", "x">>))>>)

Answers ==
  {Answer("fail", "none", Undef),
   Answer("ok", "unparseable", Undef),
   Answer("ok", "null", Undef),
   Answer("ok", "object", Undef),
   Answer("ok", "object", Num(1)),
   Answer("ok", "object", Arr(<<>>)),
   Answer("ok", "object", Mixed),
   Answer("ok", "object", BadName),
   Answer("ok", "object", BadTags)}

\* The same with an answer of more than ResultCap distinct names.
LongAnswers == Answers \cup {Answer("ok", "object", Rich)}

\* Texts typed into the search box.
Queries == {<<" ">>, <<"A">>}

\* The same with the empty text and a second query.
MoreQueries == Queries \cup {<<>>, <<"a", "b">>}

\* Ways a nutrition lookup can end: a 2xx answer with a JSON body, another
\* status, a rejected fetch, a 2xx answer whose body is not JSON.
LookupOutcomes == {"ok", "status", "fail", "unparseable"}

NoNutrition == [lid |-> 0]

\* The record the server answered lookup l with.
NutritionInfo(l) == [lid |-> l.lid]

NoError == "null"

\* The response that arrived last since the latest submission (none yet).
NoShown == [sid |-> 0, q |-> <<>>, caught |-> FALSE, entries |-> <<>>]

\* The latest submission and, once it is there, the answer to it.
Submission(sid, query, back, caught, entries) ==
  [sid |-> sid, q |-> query, back |-> back, caught |-> caught, entries |-> entries]

NoSubmit == Submission(0, <<>>, FALSE, FALSE, <<>>)

NoArrival == [lid |-> 0, ok |-> FALSE]

InitUI ==
  /\ q = <<>>
  /\ loading = FALSE
  /\ results = <<>>
  /\ picked = NoProduct
  /\ nutrition = NoNutrition
  /\ nLoading = FALSE
  /\ nError = NoError
  /\ searches = {}
  /\ lookups = {}
  /\ submitted = NoSubmit
  /\ shown = NoShown
  /\ arrived = NoArrival
  /\ clicked = NoProduct
  /\ issued = 0
  /\ current = 0

\* onChange of the search box.
setQ(text) ==
  /\ text # q
  /\ q' = text
  /\ UNCHANGED <<loading, results, picked, nutrition, nLoading, nError,
                 searches, lookups, submitted, shown, arrived, issued, current>>
  /\ clicked' = NoProduct
  /\ UNCHANGED <<serverVars, profileVars, renderVars>>

\* The body sent to /nutrition for a product.
LookupBodyNoBrand(p) == [name |-> OrEmpty(p.product_name).s, brand |-> <<>>]

LookupBody(p) == [name |-> OrEmpty(p.product_name).s, brand |-> OrEmpty(p.brands).s]

\* The effect without its first two lines.
SetPickedKeep(p) ==
  IF p = picked
  THEN UNCHANGED <<picked, nutrition, nError, nLoading, lookups, arrived, issued, current>>
  ELSE /\ picked' = p
       /\ arrived' = NoArrival
       /\ UNCHANGED <<nutrition, nError>>
       /\ IF p = NoProduct \/ OrEmpty(p.product_name).s = <<>>
          THEN current' = 0 /\ UNCHANGED <<nLoading, lookups, issued>>
          ELSE /\ issued < MaxLookups
               /\ issued' = issued + 1
               /\ current' = issued'
               /\ nLoading' = TRUE
               /\ lookups' = lookups \cup {[lid |-> issued', name |-> OrEmpty(p.product_name).s,
                                             brand |-> OrEmpty(p.brands).s]}

\* setPicked(p) and the effect on [picked] of the render that follows.
\* Setting the value picked already holds gives no render and no effect.
\* The lookups are numbered as they are issued; current is the one issued
\* for the picked product (0: none); arrived is the lookup response handled
\* last since the effect ran.
SetPicked(p) ==
  IF p = picked
  THEN UNCHANGED <<picked, nutrition, nError, nLoading, lookups, arrived, issued, current>>
  ELSE /\ picked' = p
       /\ nutrition' = NoNutrition
       /\ nError' = NoError
       /\ arrived' = NoArrival
       /\ IF p = NoProduct \/ LookupBody(p).name = <<>>
          THEN current' = 0 /\ UNCHANGED <<nLoading, lookups, issued>>
          ELSE /\ issued < MaxLookups
               /\ issued' = issued + 1
               /\ current' = issued'
               /\ nLoading' = TRUE
               /\ lookups' = lookups \cup {[lid |-> issued'] @@ LookupBody(p)}

\* search() up to its first await, with the render that follows.
search ==
  /\ submitted.sid < MaxSearches
  /\ submitted' = Submission(submitted.sid + 1, q, FALSE, FALSE, <<>>)
  /\ shown' = NoShown
  /\ results' = <<>>
  /\ SetPicked(NoProduct)
  /\ IF Trim(q) = <<>>
     THEN UNCHANGED <<loading, searches>>
     ELSE /\ loading' = TRUE
          /\ searches' = searches \cup {[sid |-> submitted'.sid, q |-> q]}
  /\ clicked' = NoProduct
  /\ UNCHANGED q
  /\ UNCHANGED <<serverVars, profileVars, renderVars>>

\* The Search button, disabled while loading.
ClickSearch == ~loading /\ search

\* Enter in the search box.
PressEnter == search

\* No finally block: loading stays set when the catch block ran.
SearchResponseNoFinally(s, o) ==
  /\ s \in searches
  /\ searches' = searches \ {s}
  /\ results' = searchResults(s.q, o, s.sid, results)
  /\ loading' = (loading /\ Caught(o, s.q))
  /\ shown' = [sid |-> s.sid, q |-> s.q, caught |-> Caught(o, s.q), entries |-> Entries(o)]
  /\ submitted' = IF s.sid = submitted.sid
                  THEN Submission(s.sid, s.q, TRUE, Caught(o, s.q), Entries(o))
                  ELSE submitted
  /\ clicked' = NoProduct
  /\ UNCHANGED <<q, picked, nutrition, nLoading, nError, lookups,
                 arrived, issued, current>>
  /\ UNCHANGED <<serverVars, profileVars, renderVars>>

\* The rest of search() once the answer o to search s is there.
SearchResponse(s, o) ==
  /\ s \in searches
  /\ searches' = searches \ {s}
  /\ results' = searchResults(s.q, o, s.sid, results)
  /\ loading' = FALSE
  /\ shown' = [sid |-> s.sid, q |-> s.q, caught |-> Caught(o, s.q), entries |-> Entries(o)]
  /\ submitted' = IF s.sid = submitted.sid
                  THEN Submission(s.sid, s.q, TRUE, Caught(o, s.q), Entries(o))
                  ELSE submitted
  /\ clicked' = NoProduct
  /\ UNCHANGED <<q, picked, nutrition, nLoading, nError, lookups,
                 arrived, issued, current>>
  /\ UNCHANGED <<serverVars, profileVars, renderVars>>

\* A click on row i of the results; clicked is the row a step clicked.
ClickRow(i) ==
  /\ i \in 1..Len(results)
  /\ clicked' = results[i]
  /\ SetPicked(results[i])
  /\ UNCHANGED <<q, loading, results, searches, submitted, shown>>
  /\ UNCHANGED <<serverVars, profileVars, renderVars>>

\* A failed lookup also drops the selection.
NutritionResponseUnpick(l, o) ==
  /\ l \in lookups
  /\ lookups' = lookups \ {l}
  /\ IF o = "ok"
     THEN nutrition' = NutritionInfo(l) /\ nError' = nError /\ picked' = picked
     ELSE nError' = "Nutrition unavailable" /\ nutrition' = nutrition /\ picked' = NoProduct
  /\ nLoading' = FALSE
  /\ arrived' = [lid |-> l.lid, ok |-> (o = "ok")]
  /\ clicked' = NoProduct
  /\ UNCHANGED <<q, loading, results, searches, submitted, shown, issued, current>>
  /\ UNCHANGED <<serverVars, profileVars, renderVars>>

\* The catch block also stores the failed response as data.
NutritionResponseBoth(l, o) ==
  /\ l \in lookups
  /\ lookups' = lookups \ {l}
  /\ IF o = "ok"
     THEN nutrition' = NutritionInfo(l) /\ nError' = nError
     ELSE nError' = "Nutrition unavailable" /\ nutrition' = NutritionInfo(l)
  /\ nLoading' = FALSE
  /\ arrived' = [lid |-> l.lid, ok |-> (o = "ok")]
  /\ clicked' = NoProduct
  /\ UNCHANGED <<q, loading, results, picked, searches, submitted, shown, issued, current>>
  /\ UNCHANGED <<serverVars, profileVars, renderVars>>

\* No finally block: the flag stays set when the catch block ran.
NutritionResponseNoFinally(l, o) ==
  /\ l \in lookups
  /\ lookups' = lookups \ {l}
  /\ IF o = "ok"
     THEN nutrition' = NutritionInfo(l) /\ nError' = nError
     ELSE nError' = "Nutrition unavailable" /\ nutrition' = nutrition
  /\ nLoading' = (nLoading /\ o # "ok")
  /\ arrived' = [lid |-> l.lid, ok |-> (o = "ok")]
  /\ clicked' = NoProduct
  /\ UNCHANGED <<q, loading, results, picked, searches, submitted, shown, issued, current>>
  /\ UNCHANGED <<serverVars, profileVars, renderVars>>

\* The then/catch/finally chain of lookup l once its outcome o is there.
NutritionResponse(l, o) ==
  /\ l \in lookups
  /\ lookups' = lookups \ {l}
  /\ IF o = "ok"
     THEN nutrition' = NutritionInfo(l) /\ nError' = nError
     ELSE nError' = "Nutrition unavailable" /\ nutrition' = nutrition
  /\ nLoading' = FALSE
  /\ arrived' = [lid |-> l.lid, ok |-> (o = "ok")]
  /\ clicked' = NoProduct
  /\ UNCHANGED <<q, loading, results, picked, searches, submitted, shown, issued, current>>
  /\ UNCHANGED <<serverVars, profileVars, renderVars>>

InitUIOff ==
  /\ q = <<>>
  /\ loading = FALSE
  /\ results = <<>>
  /\ picked = NoProduct
  /\ nutrition = NoNutrition
  /\ nLoading = FALSE
  /\ nError = NoError
  /\ searches = {}
  /\ lookups = {}
  /\ submitted = NoSubmit
  /\ shown = NoShown
  /\ arrived = NoArrival
  /\ clicked = NoProduct
  /\ issued = 0
  /\ current = 0

\* The profile side while the search panel is exercised: mounted with an
\* empty profile.
InitProfileFixed ==
  /\ store = saveProfile(EmptyObj)
  /\ profile = EmptyObj
  /\ phase = "ready"
  /\ nOps = 0


(***************************************************************************)
(* Client: risk detection, highlighting and the carbohydrate badge         *)
(***************************************************************************)
\* classifyCarbs with the upper threshold included in "Avoid".
classifyCarbsFrom30(carbs) ==
  IF carbs >= 30 THEN [label |-> "Avoid", color |-> "#d33", bg |-> "#ffecec"]
  ELSE IF carbs >= 15 THEN [label |-> "Limit", color |-> "#a96d00", bg |-> "#fff4d6"]
  ELSE [label |-> "Eat", color |-> "#1a7f37", bg |-> "#e9f7ef"]

classifyCarbs(carbs) ==
  IF carbs > 30 THEN [label |-> "Avoid", color |-> "#d33", bg |-> "#ffecec"]
  ELSE IF carbs >= 15 THEN [label |-> "Limit", color |-> "#a96d00", bg |-> "#fff4d6"]
  ELSE [label |-> "Eat", color |-> "#1a7f37", bg |-> "#e9f7ef"]

\* ALLERGENS: each category with its key (also spelled as characters) and
\* its labels.
ALLERGENS ==
  <<[key |-> "peanut",
    chars |-> <<"p", "e", "a", "n", "u", "t">>,
    labels |->
     <<<<"p", "e", "a", "n", "u", "t">>,
       <<"g", "r", "o", "u", "n", "d", "n", "u", "t">>,
       <<"a", "r", "a", "c", "h", "i", "s">>>>],
   [key |-> "tree_nuts",
    chars |-> <<"t", "r", "e", "e", "_", "n", "u", "t", "s">>,
    labels |->
     <<<<"a", "l", "m", "o", "n", "d">>,
       <<"w", "a", "l", "n", "u", "t">>,
       <<"p", "e", "c", "a", "n">>,
       <<"h", "a", "z", "e", "l", "n", "u", "t">>,
       <<"p", "i", "s", "t", "a", "c", "h", "i", "o">>,
       <<"c", "a", "s", "h", "e", "w">>,
       <<"b", "r", "a", "z", "i", "l", " ", "n", "u", "t">>,
       <<"m", "a", "c", "a", "d", "a", "m", "i", "a">>>>],
   [key |-> "milk",
    chars |-> <<"m", "i", "l", "k">>,
    labels |->
     <<<<"m", "i", "l", "k">>,
       <<"d", "a", "i", "r", "y">>,
       <<"c", "a", "s", "e", "i", "n">>,
       <<"w", "h", "e", "y">>,
       <<"l", "a", "c", "t", "o", "s", "e">>>>],
   [key |-> "egg",
    chars |-> <<"e", "g", "g">>,
    labels |->
     <<<<"e", "g", "g">>,
       <<"a", "l", "b", "u", "m", "e", "n">>,
       <<"o", "v", "a", "l", "b", "u", "m", "i", "n">>>>],
   [key |-> "gluten",
    chars |-> <<"g", "l", "u", "t", "e", "n">>,
    labels |->
     <<<<"g", "l", "u", "t", "e", "n">>,
       <<"w", "h", "e", "a", "t">>,
       <<"b", "a", "r", "l", "e", "y">>,
       <<"r", "y", "e">>,
       <<"s", "p", "e", "l", "t">>,
       <<"m", "a", "l", "t">>>>],
   [key |-> "soy",
    chars |-> <<"s", "o", "y">>,
    labels |->
     <<<<"s", "o", "y">>,
       <<"s", "o", "y", "a">>,
       <<"s", "o", "y", "b", "e", "a", "n">>,
       <<"l", "e", "c", "i", "t", "h", "i", "n", " ", "(", "s", "o", "y", "a", ")">>>>],
   [key |-> "sesame",
    chars |-> <<"s", "e", "s", "a", "m", "e">>,
    labels |->
     <<<<"s", "e", "s", "a", "m", "e">>,
       <<"t", "a", "h", "i", "n", "i">>,
       <<"s", "e", "s", "a", "m", "u", "m">>>>],
   [key |-> "fish",
    chars |-> <<"f", "i", "s", "h">>,
    labels |->
     <<<<"f", "i", "s", "h">>,
       <<"a", "n", "c", "h", "o", "v", "y">>,
       <<"c", "o", "d">>,
       <<"s", "a", "l", "m", "o", "n">>,
       <<"t", "u", "n", "a">>>>],
   [key |-> "shellfish",
    chars |-> <<"s", "h", "e", "l", "l", "f", "i", "s", "h">>,
    labels |->
     <<<<"s", "h", "r", "i", "m", "p">>,
       <<"p", "r", "a", "w", "n">>,
       <<"c", "r", "a", "b">>,
       <<"l", "o", "b", "s", "t", "e", "r">>,
       <<"o", "y", "s", "t", "e", "r">>,
       <<"c", "l", "a", "m">>,
       <<"m", "u", "s", "s", "e", "l">>,
       <<"s", "c", "a", "l", "l", "o", "p">>>>],
   [key |-> "mustard",
    chars |-> <<"m", "u", "s", "t", "a", "r", "d">>,
    labels |->
     <<<<"m", "u", "s", "t", "a", "r", "d">>>>],
   [key |-> "celery",
    chars |-> <<"c", "e", "l", "e", "r", "y">>,
    labels |->
     <<<<"c", "e", "l", "e", "r", "y">>>>],
   [key |-> "sulfites",
    chars |-> <<"s", "u", "l", "f", "i", "t", "e", "s">>,
    labels |->
     <<<<"s", "u", "l", "p", "h", "i", "t", "e">>,
       <<"s", "u", "l", "f", "i", "t", "e">>,
       <<"e", "2", "2", "0">>,
       <<"e", "2", "2", "1">>,
       <<"e", "2", "2", "2">>,
       <<"e", "2", "2", "3">>,
       <<"e", "2", "2", "4">>,
       <<"e", "2", "2", "6">>,
       <<"e", "2", "2", "7">>,
       <<"e", "2", "2", "8">>>>]>>

RECURSIVE Concat(_)
Concat(seqs) == IF seqs = <<>> THEN <<>> ELSE Head(seqs) \o Concat(Tail(seqs))

\* for (const a of ALLERGENS) if (profile[a.key]) out.push(...a.labels)
selectedLabels(prof) ==
  Concat([i \in 1..Len(ALLERGENS) |->
            IF Truthy(Prop(prof, ALLERGENS[i].key)) THEN ALLERGENS[i].labels ELSE <<>>])

\* Array.from(new Set(xs)): first occurrences, in order.
RECURSIVE Uniq(_, _)
Uniq(xs, had) ==
  IF xs = <<>> THEN <<>>
  ELSE IF Head(xs) \in had THEN Uniq(Tail(xs), had)
  ELSE <<Head(xs)>> \o Uniq(Tail(xs), had \cup {Head(xs)})

\* t.replace(/^..:/, "")
StripPrefix(t) ==
  IF Len(t) >= 3 /\ t[3] = ":" THEN Substring(t, 3) ELSE t

Elems(xs) == {xs[i] : i \in 1..Len(xs)}

\* Tag hits counted whatever the profile.
TagSelectedAny(prof, t) ==
  \E i \in 1..Len(ALLERGENS) :
     ALLERGENS[i].chars = t \/ t \in Elems(ALLERGENS[i].labels)

\* ALLERGENS.some(a => profile[a.key] && (a.key === t || a.labels.includes(t)))
TagSelected(prof, t) ==
  \E i \in 1..Len(ALLERGENS) :
     /\ Truthy(Prop(prof, ALLERGENS[i].key))
     /\ ALLERGENS[i].chars = t \/ t \in Elems(ALLERGENS[i].labels)

riskFor(p, prof) ==
  IF p = NoProduct THEN [hits |-> <<>>, hasRisk |-> FALSE]
  ELSE LET ing == ToLowerCase(OrEmpty(p.ingredients_text).s)
           hits == SelectSeq(selectedLabels(prof), LAMBDA lbl : Includes(ing, ToLowerCase(lbl)))
           stripped == [i \in 1..Len(p.allergens_tags) |-> StripPrefix(p.allergens_tags[i])]
           tagHits == SelectSeq(stripped, LAMBDA t : TagSelected(prof, t))
           uniq == Uniq(hits \o tagHits, {})
       IN [hits |-> uniq, hasRisk |-> Len(uniq) > 0]

\* \w
WordChars ==
  Elems(UpperCase) \cup Elems(LowerCase) \cup
  {"0", "1", "2", "3", "4", "5", "6", "7", "8", "9", "_"}

IsWord(c) == c \in WordChars

\* \b at offset i of the text (0 is the start, Len(text) the end).
Boundary(text, i) ==
  (i >= 1 /\ IsWord(text[i])) # (i < Len(text) /\ IsWord(text[i + 1]))

RegExpSpecial == {".", "*", "+", "?", "^", "$", "{", "}", "(", ")", "|", "[", "]", "\\"}

\* n.replace(/[.*+?^${}()|[\]\\]/g, "\\$&")
RECURSIVE Escape(_)
Escape(n) ==
  IF n = <<>> THEN <<>>
  ELSE (IF Head(n) \in RegExpSpecial THEN <<"\\", Head(n)>> ELSE <<Head(n)>>)
       \o Escape(Tail(n))

\* The characters an escaped alternative matches: a backslash makes the
\* character after it literal.
RECURSIVE Literal(_)
Literal(pat) ==
  IF pat = <<>> THEN <<>>
  ELSE IF Head(pat) = "\\" /\ Len(pat) >= 2
       THEN <<pat[2]>> \o Literal(SubSeq(pat, 3, Len(pat)))
       ELSE <<Head(pat)>> \o Literal(Tail(pat))

MarkOpen == "<mark style=\"background:#ffcccc\">"
MarkClose == "</mark>"

\* The length of the match of \b(alts)\b at offset i with flag i, -1 when
\* there is none: the first alternative, in order, that matches there and
\* ends at a \b; the empty group matches the empty string.
MatchAt(text, alts, i) ==
  IF ~Boundary(text, i) THEN -1
  ELSE IF alts = <<>> THEN 0
  ELSE LET ok == {k \in 1..Len(alts) :
                    /\ i + Len(alts[k]) <= Len(text)
                    /\ ToLowerCase(SubSeq(text, i + 1, i + Len(alts[k]))) = ToLowerCase(alts[k])
                    /\ Boundary(text, i + Len(alts[k]))}
       IN IF ok = {} THEN -1
          ELSE Len(alts[CHOOSE k \in ok : \A m \in ok : k <= m])

\* text.replace(re, m => MarkOpen m MarkClose) from offset i on, flag g: the
\* scan resumes after a match, one character further after an empty one.
RECURSIVE Replace(_, _, _)
Replace(text, alts, i) ==
  IF i > Len(text) THEN <<>>
  ELSE LET n == MatchAt(text, alts, i)
           next == IF i < Len(text) THEN <<text[i + 1]>> ELSE <<>>
       IN IF n = -1 THEN next \o Replace(text, alts, i + 1)
          ELSE IF n = 0 THEN <<MarkOpen, MarkClose>> \o next \o Replace(text, alts, i + 1)
          ELSE <<MarkOpen>> \o SubSeq(text, i + 1, i + n) \o <<MarkClose>>
               \o Replace(text, alts, i + n)

highlight(text, needles) ==
  IF text = <<>> THEN <<>>
  ELSE Replace(text, [k \in 1..Len(needles) |-> Literal(Escape(needles[k]))], 0)

\* Carbohydrate values tried.
CarbValues == {-1, 0, 14, 15, 16, 29, 30, 31, 100}

\* Profiles tried.
Profiles ==
  {EmptyObj, AllSet(FALSE), AllSet(TRUE),
   JsVal("obj", ("milk" :> "true")),
   JsVal("obj", ("soy" :> "true") @@ ("milk" :> "false")),
   JsVal("obj", ("egg" :> "\"yes\"") @@ ("gluten" :> "true")),
   JsVal("obj", ("tree_nuts" :> "true") @@ ("sulfites" :> "true")),
   JsVal("obj", ("gluten_free" :> "true")),
   JsVal("arr", ("0" :> "true"))}

\* Products tried: undefined and products built by search().
Products ==
  {NoProduct} \cup
  {ToProduct(u, 1) : u \in
     {Upstream(1, Str(<<"a">>), Undef, Undef, Undef),
      Upstream(2, Str(<<"a">>), Undef, Str(<<>>), Arr(<<>>)),
      Upstream(3, Str(<<"a">>), Undef, Str(<<"C", "o", "n", "t", "a", "i", "n", "s", " ", "M", "I", "L", "K", " ", "a", "n", "d", " ", "s", "o", "y">>), Undef),
      Upstream(4, Str(<<"a">>), Undef, Undef, Arr(<<<<"e", "n", ":", "m", "i", "l", "k">>, <<"f", "r", ":", "l", "a", "i", "t">>>>)),
      Upstream(5, Str(<<"a">>), Undef, Str(<<"w", "h", "e", "a", "t", " ", "f", "l", "o", "u", "r">>), Arr(<<<<"e", "n", ":", "g", "l", "u", "t", "e", "n">>, <<"e", "n", ":", "e", "g", "g", "s">>>>)),
      Upstream(6, Str(<<"a">>), Undef, Str(<<"e", "g", "g">>), Arr(<<<<"e", "n", ":", "e", "g", "g">>>>)),
      Upstream(7, Str(<<"a">>), Undef, Undef, Arr(<<<<"e", "n", ":", "e", "n", ":", "s", "o", "y", "a">>>>)),
      Upstream(8, Str(<<"a">>), Undef, Str(<<"s", "o", "y", "m", "i", "l", "k">>), Undef),
      Upstream(9, Str(<<"a">>), Undef, Str(<<"l", "e", "c", "i", "t", "h", "i", "n", " ", "(", "s", "o", "y", "a", ")">>), Undef)}}

\* Ingredient texts tried.
Texts ==
  {<<>>,
   <<"m", "i", "l", "k">>,
   <<"M", "I", "L", "K">>,
   <<"C", "o", "n", "t", "a", "i", "n", "s", " ", "m", "i", "l", "k", " ", "a", "n", "d", " ", "s", "o", "y">>,
   <<"s", "o", "y", "m", "i", "l", "k">>,
   <<"s", "o", "y", "a", " ", "m", "i", "l", "k">>,
   <<"b", "r", "a", "z", "i", "l", " ", "n", "u", "t", " ", "o", "i", "l">>,
   <<"l", "e", "c", "i", "t", "h", "i", "n", " ", "(", "s", "o", "y", "a", ")">>,
   <<"l", "e", "c", "i", "t", "h", "i", "n", " ", "(", "s", "o", "y", "a", ")", "x">>,
   <<"e", "2", "2", "0", ",", " ", "E", "g", "g">>}

\* Keyword lists tried: those of the profiles, and ["milk"].
Needles == {selectedLabels(prof) : prof \in Profiles} \cup {<<<<"m", "i", "l", "k">>>>}

Args(fn, c, p, prof, text, needles) ==
  [fn |-> fn, c |-> c, p |-> p, profile |-> prof, text |-> text, needles |-> needles]

RenderInputs ==
  {Args("classifyCarbs", c, NoProduct, EmptyObj, <<>>, <<>>) : c \in CarbValues}
  \cup {Args("riskFor", 0, p, prof, <<>>, <<>>) : p \in Products, prof \in Profiles}
  \cup {Args("highlight", 0, NoProduct, EmptyObj, text, n) : text \in Texts, n \in Needles}
  \cup {Args("details", 0, p, prof, <<>>, <<>>) : p \in Products, prof \in Profiles}

NoOutput == [fn |-> "none"]

InitRender ==
  /\ input \in RenderInputs
  /\ output = NoOutput

Classify ==
  /\ input.fn = "classifyCarbs"
  /\ output = NoOutput
  /\ output' = [fn |-> "classifyCarbs", v |-> classifyCarbs(input.c)]
  /\ UNCHANGED <<input, serverVars, profileVars, uiVars>>

Risk ==
  /\ input.fn = "riskFor"
  /\ output = NoOutput
  /\ output' = [fn |-> "riskFor", v |-> riskFor(input.p, input.profile)]
  /\ UNCHANGED <<input, serverVars, profileVars, uiVars>>

Highlight ==
  /\ input.fn = "highlight"
  /\ output = NoOutput
  /\ output' = [fn |-> "highlight", v |-> highlight(input.text, input.needles)]
  /\ UNCHANGED <<input, serverVars, profileVars, uiVars>>

\* The render of the details panel: pickedRisk and highlighted.
Details ==
  /\ input.fn = "details"
  /\ output = NoOutput
  /\ output' = [fn |-> "details",
                v |-> [pickedRisk |-> riskFor(input.p, input.profile),
                       highlighted |->
                         IF Falsy(input.p.ingredients_text) THEN <<>>
                         ELSE highlight(input.p.ingredients_text.s,
                                        selectedLabels(input.profile))]]
  /\ UNCHANGED <<input, serverVars, profileVars, uiVars>>

InitRenderOff ==
  /\ input = Args("none", 0, NoProduct, EmptyObj, <<>>, <<>>)
  /\ output = NoOutput

InitServerOff ==
  /\ usdaKey = FALSE
  /\ now = 0
  /\ cache = <<>>
  /\ req = [r \in Slots |-> IdleReq]
  /\ last = NoResponse
  /\ seen = NoSeen
  /\ answered = {}
  /\ nReq = 0
  /\ nTicks = 0

InitProfile == InitClient /\ InitServerOff /\ InitUIOff /\ InitRenderOff

NextProfile ==
  \/ Mount
  \/ \E k \in CategoryKeys : Toggle(k)
  \/ selectAllAllergens
  \/ deselectAllAllergens

SpecProfile == InitProfile /\ [][NextProfile]_vars

InitSearch == InitUI /\ InitServerOff /\ InitProfileFixed /\ InitRenderOff

NextSearch ==
  \/ \E text \in Queries : setQ(text)
  \/ ClickSearch
  \/ PressEnter
  \/ \E s \in searches, o \in Answers : SearchResponse(s, o)
  \/ \E i \in 1..ResultCap : ClickRow(i)
  \/ \E l \in lookups, o \in LookupOutcomes : NutritionResponse(l, o)

SpecSearch == InitSearch /\ [][NextSearch]_vars

\* Every fetch of a search settles: the promise is resolved or rejected.
SearchIds == 1..MaxSearches

SpecSearchLive ==
  /\ SpecSearch
  /\ \A sid \in SearchIds :
       WF_vars(\E s \in searches, o \in Answers : s.sid = sid /\ SearchResponse(s, o))

\* The search panel alone, no row clicked, with more queries and the long
\* answer.
\* (ClickRow and NutritionResponse leave q, loading, results, searches,
\* submitted and shown as they are.)
NextResults ==
  \/ \E text \in MoreQueries : setQ(text)
  \/ ClickSearch
  \/ PressEnter
  \/ \E s \in searches, o \in LongAnswers : SearchResponse(s, o)

SpecResults == InitSearch /\ [][NextResults]_vars

\* The functions the render applies, each to the inputs above.
InitRenderOnly == InitRender /\ InitServerOff /\ InitProfileFixed /\ InitUIOff

NextRender == Classify \/ Risk \/ Highlight \/ Details

SpecRender == InitRenderOnly /\ [][NextRender]_vars

InitClientOff ==
  /\ store = Absent
  /\ profile = EmptyObj
  /\ phase = "off"
  /\ nOps = 0
  /\ InitUIOff
  /\ InitRenderOff

Init == InitServer /\ InitClientOff

Next ==
  \/ \E r \in Slots, b \in Bodies : Receive(r, b)
  \/ \E r \in Slots, o \in SearchOutcomes : SearchReturn(r, o)
  \/ \E r \in Slots, o \in DetailOutcomes : DetailReturn(r, o)
  \/ \E d \in TickSteps : Tick(d)

Spec == Init /\ [][Next]_vars

(***************************************************************************)
(* Properties of the /nutrition route                                      *)
(***************************************************************************)
\* The step received a request.
Received == nReq' = nReq + 1

\* The step sent the request of slot r to the upstream search.
WentUpstream(r) == req[r].pc = "idle" /\ req'[r].pc = "search"

AllSpaces(s) == \A i \in 1..Len(s) : s[i] = " "
NameBlank(b) == b.name.t = "undef" \/ (b.name.t = "str" /\ AllSpaces(b.name.s))
BrandUsable(b) == b.brand.t \in {"undef", "str"}

\* C1: a record is served from the cache only if at most 5 minutes have
\* passed since it was stored, and it is the stored record; a request that
\* goes upstream although an entry for its key exists found that entry older
\* than 5 minutes and removed it.
C1_NoStaleServe ==
  [][/\ last'.fromCache =>
          /\ last'.key \in DOMAIN cache
          /\ now - cache[last'.key].t <= TTL
          /\ last'.data = cache[last'.key].data
     /\ \A r \in Slots :
          WentUpstream(r) /\ req'[r].key \in DOMAIN cache =>
             /\ now - cache[req'[r].key].t > TTL
             /\ req'[r].key \notin DOMAIN cache']_vars

\* A record served from the cache exactly 5 minutes after it was stored.
C1_Witness ==
  /\ last.fromCache
  /\ last.key \in DOMAIN cache
  /\ now - cache[last.key].t = TTL

\* C2 as stated: once a request with key K has been answered 200, a request
\* with key K received less than 5 minutes after that record was stored gets
\* the same record and calls nothing upstream.  (Stated for the runs in
\* which every record so far was computed for the brand of the request
\* received and from a detail call with a success status.)
C2_SameRecord ==
  [][(Received /\ \A x \in answered : x.ok /\ x.brand = last'.brand) =>
       \A a \in answered :
         now - a.t < TTL =>
           /\ \A r \in Slots : ~(WentUpstream(r) /\ req'[r].key = a.key)
           /\ last'.key = a.key =>
                last'.status = 200 /\ last'.fromCache /\ last'.data = a.data]_vars

\* C2 amended: such a request is answered 200 from the cache with the record
\* stored under K at that moment and calls nothing upstream; and a request
\* is served from the cache only if some 200 answer for its key has a record
\* stored at most 5 minutes earlier.
C2_CacheHit ==
  [][Received =>
       /\ \A a \in answered :
            now - a.t < TTL =>
              /\ \A r \in Slots : ~(WentUpstream(r) /\ req'[r].key = a.key)
              /\ last'.key = a.key =>
                   /\ last'.status = 200 /\ last'.fromCache
                   /\ a.key \in DOMAIN cache /\ last'.data = cache[a.key].data
                   /\ req' = req
       /\ last'.fromCache =>
            \E a \in answered : a.key = last'.key /\ now - a.t <= TTL]_vars

\* A request answered from the cache after an earlier 200 for the same key.
C2_Witness ==
  /\ last.fromCache
  /\ \E a \in answered : a.key = last.key /\ now - a.t < TTL /\ now - a.t > 0

\* C3 as stated: a 200 response says "generic" exactly when the request had
\* no brand, and with a brand says "exact" or "likely"; for a computed
\* response "exact" exactly when the brand owner contains the brand.
C3_MatchType ==
  last.status = 200 =>
    /\ (last.data.matchType = "generic") <=> (last.brand = <<>>)
    /\ last.brand # <<>> => last.data.matchType \in {"exact", "likely"}
    /\ (last.brand # <<>> /\ ~last.fromCache) =>
         ((last.data.matchType = "exact") <=>
            (last.dOut.d.brandOwner.t = "str" /\
             Includes(ToLowerCase(last.dOut.d.brandOwner.s), ToLowerCase(last.brand))))

\* C4 as stated: a failed search or detail call (network error or
\* non-success status) gives a 500 and leaves the cache as it was.
UpstreamFailed(o) == o.net = "fail" \/ (o.net = "ok" /\ ~o.ok)

C4_UpstreamFailure ==
  [][(UpstreamFailed(last'.sOut) \/ UpstreamFailed(last'.dOut)) =>
       last'.status = 500 /\ cache' = cache]_vars

\* C5 as stated: a request with a missing or blank name gets 400 "name
\* required" whatever the configuration, with no upstream call and no cache
\* change; without a provider key the answer is 500.
C5_NameRequiredAlways ==
  [][/\ (Received /\ NameBlank(last'.body)) =>
          /\ last'.status = 400 /\ last'.error = "name required"
          /\ cache' = cache /\ req' = req
     /\ (Received /\ ~usdaKey /\ ~NameBlank(last'.body)) =>
          last'.status = 500 /\ last'.error = "USDA_API_KEY missing in .env"]_vars

\* C5 amended: without a provider key every request gets 500 "USDA_API_KEY
\* missing in .env"; with a key, a missing or blank name gets 400 "name
\* required" when the brand is absent or a string, and 500 "server_error"
\* when the brand is a truthy non-string; none of these goes upstream or
\* changes the cache.
C5_NameRequired ==
  [][Received =>
       /\ ~usdaKey =>
            /\ last'.status = 500 /\ last'.error = "USDA_API_KEY missing in .env"
            /\ cache' = cache /\ req' = req
       /\ (usdaKey /\ NameBlank(last'.body) /\ BrandUsable(last'.body)) =>
            /\ last'.status = 400 /\ last'.error = "name required"
            /\ cache' = cache /\ req' = req
       /\ (usdaKey /\ NameBlank(last'.body) /\ ~BrandUsable(last'.body)) =>
            /\ last'.status = 500 /\ last'.error = "server_error"
            /\ cache' = cache /\ req' = req]_vars

\* A name of blanks answered 400 on a configured server.
C5_Witness ==
  /\ usdaKey
  /\ last.body.name = Str(<<" ">>)
  /\ last.status = 400

\* C6: a search that succeeds with an empty or missing candidate list is
\* answered 404 "not_found", with no detail call and no cache change.
ZeroCandidates(o) ==
  o.net = "ok" /\ o.ok /\ o.body = "object" /\ (~o.hasFoods \/ o.empty)

Branded(h) == {i \in 1..Len(h) : h[i].dataType = "Branded"}

C7_Pick ==
  seen.slot # 0 =>
    LET r == req[seen.slot]
        h == seen.hits
    IN /\ r.pc = "detail"
       /\ h # <<>>
       /\ r.pick = IF r.brand # <<>> /\ Branded(h) # {}
                   THEN h[CHOOSE i \in Branded(h) : \A j \in Branded(h) : i <= j]
                   ELSE h[1]

\* With a brand, a Branded candidate picked over a first one that is not.
C7_Witness ==
  /\ seen.slot # 0
  /\ req[seen.slot].brand # <<>>
  /\ seen.hits[1].dataType = "Foundation"
  /\ req[seen.slot].pick.dataType = "Branded"

(***************************************************************************)
(* Properties of the profile store                                         *)
(***************************************************************************)
\* C8 as stated: whatever the item held at startup, every key of the profile
\* in memory and of the persisted profile is one of the 12 category keys.
C8_ProfileKeys ==
  phase = "ready" =>
    /\ Keys(profile) \subseteq CategoryKeys
    /\ Keys(loadProfile(store)) \subseteq CategoryKeys

\* C9: once a profile update is processed, loading the persisted item gives
\* exactly the profile in memory.
C9_Persisted == phase = "ready" => loadProfile(store) = profile

\* After a toggle that cleared a category, with another one still selected.
C9_Witness ==
  /\ phase = "ready"
  /\ nOps >= 2
  /\ \E k \in Keys(profile) : profile.m[k] = "false"
  /\ \E k \in Keys(profile) : profile.m[k] = "true"

\* C10 as stated: load() gives a mapping for every content of the item, and
\* the empty mapping when the item is absent or is not the text of a mapping.
IsMapping(st) == st.kind = "json" /\ st.v.t = "obj"

C10_LoadTotal ==
  [][(phase = "start" /\ phase' # "start") =>
       /\ profile'.t = "obj"
       /\ ~IsMapping(store) => profile' = EmptyObj]_vars

\* C11: Select All gives, in one step and from any profile, a profile whose
\* 12 categories are all true, Deselect All one whose 12 categories are all
\* false; after either, the persisted profile is that result.
AllCategories(p, v) ==
  p.t = "obj" /\ Keys(p) = CategoryKeys /\ \A k \in CategoryKeys : p.m[k] = v

C11_SelectAll ==
  [][/\ selectAllAllergens =>
          AllCategories(profile', "true") /\ loadProfile(store') = profile'
     /\ deselectAllAllergens =>
          AllCategories(profile', "false") /\ loadProfile(store') = profile']_vars

\* Every category false and persisted so: within the number of operations
\* explored only Deselect All gets there.
C11_Witness ==
  /\ phase = "ready"
  /\ nOps >= 1
  /\ AllCategories(profile, "false")
  /\ loadProfile(store) = profile

(***************************************************************************)
(* Properties of the search panel                                          *)
(***************************************************************************)
\* The entries of an upstream list that survive the filter for a query, and
\* among them the first one of each display name.
Surviving(entries, query) ==
  {i \in 1..Len(entries) :
     /\ entries[i].product_name.t = "str"
     /\ entries[i].product_name.s # <<>>
     /\ Includes(ToLowerCase(entries[i].product_name.s), ToLowerCase(query))}

FirstOfName(entries, query) ==
  {i \in Surviving(entries, query) :
     \A j \in Surviving(entries, query) :
        j < i => entries[j].product_name # entries[i].product_name}

\* C12: in every state the result list has at most 5 products, no two with
\* the same display name, each with a name containing the query of its
\* search case-insensitively, and they are the first surviving occurrences
\* in upstream order (all of them up to 5 when the search did not fail).
C12_Results ==
  LET F == FirstOfName(shown.entries, shown.q)
      Rank(i) == Cardinality({j \in F : j <= i})
  IN /\ Len(results) <= 5
     /\ \A i, j \in 1..Len(results) :
          i # j => results[i].product_name # results[j].product_name
     /\ \A i \in 1..Len(results) :
          /\ results[i].product_name.t = "str"
          /\ Includes(ToLowerCase(results[i].product_name.s), ToLowerCase(shown.q))
     /\ \A k \in 1..Len(results) :
          \E i \in F : /\ Rank(i) = k
                       /\ results[k].code = shown.entries[i].code
                       /\ results[k].product_name = shown.entries[i].product_name
     /\ (shown.sid # 0 /\ ~shown.caught) => Len(results) = Min(5, Cardinality(F))
     /\ shown.sid = 0 => results = <<>>

\* Five rows shown out of more than five distinct surviving names, one name
\* met twice upstream, while a later search is still in flight.
C12_Witness ==
  /\ Len(results) = 5
  /\ Cardinality(FirstOfName(shown.entries, shown.q)) > 5
  /\ Cardinality(Surviving(shown.entries, shown.q)) >
       Cardinality(FirstOfName(shown.entries, shown.q))
  /\ searches # {}

(***************************************************************************)
(* Properties of the functions the render applies                          *)
(***************************************************************************)
NoneSelected(prof) == \A k \in CategoryKeys : Prop(prof, k) \in {"false", "ABSENT"}

\* C13: riskFor reports no risk and no hit when no category is selected;
\* it reports a risk exactly when the hit list is not empty; and a product
\* without ingredient text and without tags has no risk.
C13_Risk ==
  output.fn = "riskFor" =>
    /\ NoneSelected(input.profile) => (~output.v.hasRisk /\ output.v.hits = <<>>)
    /\ output.v.hasRisk <=> (output.v.hits # <<>>)
    /\ (OrEmpty(input.p.ingredients_text).s = <<>> /\ input.p.allergens_tags = <<>>) =>
         (~output.v.hasRisk /\ output.v.hits = <<>>)

\* riskFor applied, with no category selected, to a product whose text and
\* tags both name allergens.
C13_Witness ==
  /\ output.fn = "riskFor"
  /\ NoneSelected(input.profile)
  /\ input.p.ingredients_text.t = "str"
  /\ Len(input.p.allergens_tags) >= 2

\* The text an output of highlight shows, and the stretches of it that are
\* inside a marker, as pairs of offsets <<from, to>>.
IsMark(x) == x \in {MarkOpen, MarkClose}

Unmarked(marked) == SelectSeq(marked, LAMBDA x : ~IsMark(x))

Spans(marked) ==
  {<<Len(Unmarked(SubSeq(marked, 1, i))), Len(Unmarked(SubSeq(marked, 1, j)))>> :
     <<i, j>> \in {ij \in (1..Len(marked)) \X (1..Len(marked)) :
                     /\ ij[1] < ij[2]
                     /\ marked[ij[1]] = MarkOpen
                     /\ marked[ij[2]] = MarkClose
                     /\ \A m \in (ij[1] + 1)..(ij[2] - 1) : ~IsMark(marked[m])}}

\* The occurrences of a keyword in the text, case-insensitively, with a
\* non-word character or the end of the text on both sides.
Delimited(text, needles) ==
  {<<i, j>> \in (0..Len(text)) \X (0..Len(text)) :
     /\ i < j
     /\ \E k \in 1..Len(needles) :
          ToLowerCase(SubSeq(text, i + 1, j)) = ToLowerCase(needles[k])
     /\ i = 0 \/ ~IsWord(text[i])
     /\ j = Len(text) \/ ~IsWord(text[j + 1])}

\* C14 as stated: highlight puts every delimited occurrence of an active
\* keyword inside a marker, marks nothing but such occurrences, and leaves
\* the text itself unchanged; the empty text gives the empty string.
C14_Highlight ==
  output.fn = "highlight" =>
    /\ \A occ \in Delimited(input.text, input.needles) :
         \E sp \in Spans(output.v) : sp[1] <= occ[1] /\ occ[2] <= sp[2]
    /\ Spans(output.v) \subseteq Delimited(input.text, input.needles)
    /\ Unmarked(output.v) = input.text
    /\ input.text = <<>> => output.v = <<>>

LookupHandled == lookups' # lookups /\ lookups' \subseteq lookups

\* C15: handling the outcome of a lookup sets the error to "Nutrition
\* unavailable" when it failed and the result when it succeeded, and leaves
\* the picked product, the results, the search text, the search-loading flag
\* and the profile as they were.
C15_LookupFrame ==
  [][LookupHandled =>
       /\ UNCHANGED <<picked, results, q, loading, profile>>
       /\ ~arrived'.ok => nError' = "Nutrition unavailable"
       /\ arrived'.ok => nutrition' = [lid |-> arrived'.lid]]_vars

\* A failed lookup handled with the product still picked and the list shown.
C15_Witness ==
  /\ arrived.lid # 0 /\ ~arrived.ok
  /\ nError = "Nutrition unavailable"
  /\ picked # NoProduct
  /\ results # <<>>

\* C16 as stated: once no lookup is in flight, the nutrition state is the
\* outcome (a result or an error, not both) of the lookup issued for the
\* picked product, never of a lookup issued for a product picked earlier.
C16_Supersedes ==
  (lookups = {} /\ picked # NoProduct) =>
    /\ (nutrition = NoNutrition) # (nError = NoError)
    /\ nutrition # NoNutrition => nutrition.lid = current

\* C16 amended: a selection clears result and error; once no lookup is in
\* flight, the state shows the outcome of the response that arrived last
\* since the selection, for whichever product that lookup was issued.
C16_LastArrival ==
  /\ (picked # NoProduct /\ arrived.lid = 0) =>
       (nutrition = NoNutrition /\ nError = NoError)
  /\ (lookups = {} /\ picked # NoProduct) =>
       /\ arrived.lid \in 1..current
       /\ arrived.ok => nutrition = [lid |-> arrived.lid]
       /\ ~arrived.ok => nError = "Nutrition unavailable"

\* The result of a lookup issued for a product picked earlier, shown once
\* nothing is in flight.
C16_Witness ==
  /\ lookups = {}
  /\ picked # NoProduct
  /\ arrived.ok /\ arrived.lid < current
  /\ nutrition = [lid |-> arrived.lid]

\* What a selection that takes effect does: the row is picked, result and
\* error are cleared, and one lookup with its name and brand is issued iff
\* the name is not empty.
Selected(row) ==
  /\ picked' = row
  /\ nutrition' = NoNutrition
  /\ nError' = NoError
  /\ IF row.product_name.t = "str" /\ row.product_name.s # <<>>
     THEN \E l \in lookups' \ lookups :
            /\ lookups' = lookups \cup {l}
            /\ l.name = row.product_name.s
            /\ l.brand = (IF row.brands.t = "str" THEN row.brands.s ELSE <<>>)
     ELSE lookups' = lookups

\* C18 as stated: every click on a row, the picked one included, has that
\* effect.
C18_EveryClick == [][clicked' # NoProduct => Selected(clicked')]_vars

\* C18 amended: a click on a row other than the picked one has that effect;
\* a click on the picked row changes nothing.
C18_Click ==
  [][clicked' # NoProduct =>
       IF clicked' = picked
       THEN UNCHANGED <<picked, nutrition, nError, nLoading, lookups>>
       ELSE Selected(clicked')]_vars

\* The picked row clicked again with its result on display.
C18_Witness ==
  /\ clicked # NoProduct
  /\ clicked = picked
  /\ nutrition # NoNutrition

(***************************************************************************)
(* Properties of overlapping searches                                      *)
(***************************************************************************)
\* The list search() computes from the response recorded in sh (the
\* entries shown, whichever objects hold them).
ComputedFrom(res, sh) ==
  LET F == FirstOfName(sh.entries, sh.q)
      Rank(i) == Cardinality({j \in F : j <= i})
  IN IF sh.caught THEN res = <<>>
     ELSE /\ Len(res) = Min(5, Cardinality(F))
          /\ \A k \in 1..Len(res) :
               \E i \in F : /\ Rank(i) = k
                            /\ res[k].code = sh.entries[i].code
                            /\ res[k].product_name = sh.entries[i].product_name

\* C19 as stated: once no search is in flight, the list is the one computed
\* from the response to the query submitted last (stated for a last query
\* that is not blank, so that a request was sent for it).
C19_Supersedes ==
  (searches = {} /\ submitted.sid # 0 /\ ~AllSpaces(submitted.q)) =>
    (submitted.back /\ ComputedFrom(results, submitted))

\* C19 amended: once no search is in flight, the list is the one computed
\* from the response that arrived last since the latest submission, whichever
\* search it answers (empty if none arrived).
C19_LastArrival ==
  (searches = {} /\ submitted.sid # 0) =>
    /\ shown.sid = 0 => (results = <<>> /\ AllSpaces(submitted.q))
    /\ shown.sid # 0 => (shown.sid <= submitted.sid /\ ComputedFrom(results, shown))

\* The rows of an earlier search on display after all responses arrived,
\* the latest search having found nothing.
C19_Witness ==
  /\ searches = {}
  /\ shown.sid # 0 /\ shown.sid < submitted.sid
  /\ results # <<>>
  /\ submitted.back /\ ~submitted.caught /\ submitted.entries = <<>>

\* The step handled the response to a search.
SearchHandled == searches' # searches /\ searches' \subseteq searches

\* The step submitted a blank query.
BlankSubmitted == submitted'.sid = submitted.sid + 1 /\ AllSpaces(submitted'.q)

InFlight(sid) == \E s \in searches : s.sid = sid

\* C20 as stated: every started search ends, with loading false; after a
\* failed one the list is empty and nothing is picked; a blank query clears
\* list and selection and sends nothing.
C20_SearchEnds ==
  /\ \A sid \in SearchIds : InFlight(sid) ~> (~InFlight(sid) /\ ~loading)
  /\ [][/\ SearchHandled => ~loading'
        /\ (SearchHandled /\ shown'.caught) => (results' = <<>> /\ picked' = NoProduct)
        /\ BlankSubmitted =>
             (results' = <<>> /\ picked' = NoProduct /\ searches' = searches)]_vars

\* C20 amended: the same, but after a failed search something is picked
\* when a row of an overlapping search was clicked meanwhile: the failure
\* leaves the selection as it is, and nothing is picked if no response
\* arrived since the latest submission.
C20_SearchEndsAmended ==
  /\ \A sid \in SearchIds : InFlight(sid) ~> (~InFlight(sid) /\ ~loading)
  /\ [][/\ SearchHandled => ~loading'
        /\ (SearchHandled /\ shown'.caught) =>
             /\ results' = <<>>
             /\ picked' = picked
             /\ shown.sid = 0 => picked' = NoProduct
        /\ BlankSubmitted =>
             (results' = <<>> /\ picked' = NoProduct /\ searches' = searches)]_vars

\* A failed search handled while a row of an overlapping search is picked.
C20_Witness ==
  /\ shown.caught
  /\ results = <<>>
  /\ ~loading
  /\ picked # NoProduct

(***************************************************************************)
(* Properties of concurrent /nutrition requests                            *)
(***************************************************************************)
\* The slots whose request the step sent to the upstream search.
SentUpstream == {r \in Slots : WentUpstream(r)}

\* Another handler with cache key k is between its search call and its
\* response.
Awaiting(r, k) ==
  \E x \in Slots \ {r} : req[x].pc \in {"search", "detail"} /\ req[x].key = k

\* A record for key k was stored at most 5 minutes ago.
StoredInWindow(k) == \E a \in answered : a.key = k /\ now - a.t <= TTL

\* The body names a product and the handler can read it.
Usable(b) == b.name.t = "str" /\ ~AllSpaces(b.name.s) /\ BrandUsable(b)

\* C21 as stated: a request issues no upstream search for its key within 5
\* minutes after a record for that key was stored, nor while an earlier
\* request with the same key is still awaiting upstream.
C21_OneInFlight ==
  [][\A r \in SentUpstream :
       /\ ~StoredInWindow(req'[r].key)
       /\ ~Awaiting(r, req'[r].key)]_vars

\* C21 amended: a request issues no upstream search for its key within 5
\* minutes after a record for that key was stored; a readable request that
\* names a product issues its own search exactly when no such record exists,
\* whether or not an earlier request with the same key is awaiting upstream.
C21_OnePerWindow ==
  [][Received =>
       /\ \A r \in SentUpstream : ~StoredInWindow(req'[r].key)
       /\ SentUpstream = {} /\ usdaKey /\ Usable(last'.body) =>
            last'.status = 200 /\ last'.fromCache /\ StoredInWindow(last'.key)]_vars

\* Two requests with the same key await upstream at the same time, one of
\* them at its search call.
C21_Witness ==
  \E r \in Slots :
    /\ req[r].pc = "search"
    /\ Awaiting(r, req[r].key)
    /\ nReq >= 2

(***************************************************************************)
(* Properties of the nutrition panel                                       *)
(***************************************************************************)
HasNutrition == nutrition # NoNutrition
HasError == nError # NoError

\* C22 as stated: the nutrition panel never holds nutrition data and the
\* "Nutrition unavailable" message at the same time.
C22_NeverBoth == ~(HasNutrition /\ HasError)

\* C22 amended: a change of the picked product leaves the nutrition data
\* and the message both unset, and they stay unset until a lookup outcome is
\* handled; the panel comes to hold both only when the outcomes of two
\* different lookups, a success and a failure, are handled with no change of
\* the picked product in between.
C22_OneOutcome ==
  [][/\ picked' # picked => ~HasNutrition' /\ ~HasError'
     /\ arrived' = NoArrival => ~HasNutrition' /\ ~HasError'
     /\ (HasNutrition' /\ HasError') /\ ~(HasNutrition /\ HasError) =>
          /\ picked' = picked
          /\ arrived # NoArrival /\ arrived' # NoArrival
          /\ arrived'.lid # arrived.lid
          /\ arrived'.ok # arrived.ok]_vars

\* The panel shows the data of a superseded lookup together with the
\* message of the lookup issued for the picked product.
C22_Witness ==
  /\ HasNutrition /\ HasError
  /\ picked # NoProduct
  /\ nutrition.lid # current
  /\ arrived = [lid |-> current, ok |-> FALSE]

\* C23 as stated: the nutrition-loading flag is set exactly when at least
\* one nutrition lookup is in flight.
C23_LoadingIffInFlight == nLoading <=> lookups # {}

\* C23 amended: the flag is set only while a lookup is in flight; issuing a
\* lookup sets it and handling the outcome of any lookup clears it, also
\* when another lookup is still in flight; so it is set exactly when a
\* lookup is in flight and none was handled since the last one was issued.
C23_LoadingUntilFirst ==
  [][/\ nLoading' => lookups' # {}
     /\ (\E l \in lookups' : l \notin lookups) => nLoading'
     /\ (\E l \in lookups : l \notin lookups') => ~nLoading'
     /\ lookups' = lookups => nLoading' = nLoading]_vars

\* The flag is clear although the lookup issued for the picked product is
\* in flight: the outcome of a superseded lookup was handled.
C23_Witness ==
  /\ ~nLoading
  /\ \E l \in lookups : l.lid = current
  /\ arrived.lid # 0 /\ arrived.lid # current

(***************************************************************************)
(* Properties of the details panel                                         *)
(***************************************************************************)
\* The occurrences of keyword h in the text, case-insensitively, as pairs of
\* offsets <<from, to>>.
Occurrences(text, h) ==
  {<<i, j>> \in (0..Len(text)) \X (0..Len(text)) :
     i < j /\ ToLowerCase(SubSeq(text, i + 1, j)) = ToLowerCase(h)}

\* The hits riskFor reports because they occur in the ingredient text.
TextHits(hits, text, prof) ==
  {h \in Elems(hits) :
     h \in Elems(selectedLabels(prof)) /\ Includes(ToLowerCase(text), ToLowerCase(h))}

\* C24: for the picked product and the profile, every keyword riskFor
\* reports as a hit because it occurs in the ingredient text has an
\* occurrence inside a marker of the highlighted text, and with no category
\* selected the highlighted text is the ingredient text, without a marker.
C24_BannerMatchesMarks ==
  output.fn = "details" =>
    LET text == OrEmpty(input.p.ingredients_text).s
    IN /\ \A h \in TextHits(output.v.pickedRisk.hits, text, input.profile) :
            \E occ \in Occurrences(text, h), sp \in Spans(output.v.highlighted) :
               sp[1] <= occ[1] /\ occ[2] <= sp[2]
       /\ NoneSelected(input.profile) => output.v.highlighted = text

====
